---- MODULE Spec2Model ----
(***************************************************************************)
(* SplunkScripts: the incremental CSV-to-event script input                *)
(* (csvToJsonConverter/bin/splunk_csv_input.py, class SplunkCSVInput).     *)
(*                                                                         *)
(* The model has the watched directory (fs), the state store on disk       *)
(* (state_file), the process with its in-memory file_states, and the       *)
(* standard output of the current pass (out).  The file system and the     *)
(* state store are changed by the environment between the steps of the     *)
(* process.  One loop iteration of run_once (should_process_file followed  *)
(* by process_csv_file on one candidate) is one step: a file is taken not  *)
(* to change between its hashing and its reading in the same iteration.    *)
(*                                                                         *)
(* Failures are properties of the environment state: a candidate that is   *)
(* gone when it is stat'ed, a file that cannot be opened (perm = FALSE),   *)
(* a row the reader raises on (Bad).  save_state is taken to succeed.      *)
(*                                                                         *)
(* The saved-search deletion script                                        *)
(* (DeleteSplunkKO/delete_disabled_searches.py, SplunkSearchManager) runs  *)
(* against a server holding saved searches (searches) and leaves the       *)
(* requests it sent in requests; it has its own specification, DelSpec.    *)
(*                                                                         *)
(* The batch converter (splunkCSVtoJSON/csv_to_splunk.py,                  *)
(* CSVToSplunkConverter.process_csv_directory) reads the CSV files of      *)
(* data_path, writes json_output and posts events (posted); its            *)
(* specification is ConvSpec.  The posting of each event is a step of its  *)
(* own, so that the order of writing and posting is part of the behaviour. *)
(***************************************************************************)
EXTENDS Integers, Sequences, FiniteSets, TLC

\* ---------------------------------------------------------------- bounds
MaxRows == 2        \* data rows a file holds at most
MaxTime == 1        \* modification times are 0..MaxTime
MaxEdits == 2       \* changes the environment makes in one behaviour
MaxNames == 2       \* lines of the file of saved-search names at most

Paths == {"a.csv", "b.csv"}     \* the candidates data_dir.glob("*.csv") can list
Vals == {"u"}                   \* the content of a well-formed data row
Bad == "bad"                    \* a data row of the same length on which the reader raises
RunModes == {"once", "continuous"}

VARIABLES
    fs,               \* the watched directory: path -> file
    state_file,       \* state_dir/csv_state.json
    file_states,      \* self.file_states of the running process
    pc,               \* "down" | "idle" | "pass"
    run_mode,         \* CSV_RUN_MODE of the running process
    todo,             \* the candidates run_once's for loop has not handled yet
    total_processed,  \* run_once's counter
    out,              \* the events printed to stdout by the current (last) pass
    failed,           \* some candidate of the current pass hit an error
    writes,           \* save_state calls of the current (last) pass
    exit_how,         \* how the last process ended
    calm,             \* passes over an unchanged file set (see Calm* below)
    edits,            \* environment changes so far
    csv_row,          \* the row given to extract_timestamp
    event_time,       \* what extract_timestamp returned for it
    searches,         \* the server: saved-search name -> where it lives, its details
    connection_ok,    \* the server answers the connection test with 200
    dry_run,          \* --dry-run / settings.dry_run
    names_file,       \* the file given with --file
    search_names,     \* the names process_searches_from_file has not handled yet
    requests,         \* the HTTP requests sent so far, in order
    counts,           \* deleted_count, skipped_count, not_found_count, error_count
    del_pc,           \* "start" | "loop" | "done"
    data_path,        \* the converter's data directory: path -> file
    output_ok,        \* the JSON files can be written to the output directory
    splunk_host,      \* --splunk-host ("" when not configured)
    splunk_token,     \* --splunk-token ("" when not configured)
    csv_files,        \* the CSV files process_csv_directory has not finished yet
    sending,          \* the events send_to_splunk has not posted yet
    json_output,      \* the output directory: path of the CSV -> content of its JSON file
    posted,           \* the POST requests sent so far, in order, with their answers
    conv_pc,          \* "start" | "loop" | "done"
    emitted           \* path -> row -> times its event was printed (2: twice or
                      \* more), over all passes and processes; kept where said

vars == <<fs, state_file, file_states, pc, run_mode, todo, total_processed, out,
          failed, writes, exit_how, calm, edits, csv_row, event_time,
          searches, connection_ok, dry_run, names_file, search_names, requests,
          counts, del_pc, data_path, output_ok, splunk_host, splunk_token,
          csv_files, sending, json_output, posted, conv_pc, emitted>>

\* ------------------------------------------------------------ file system
NoFile == [exists |-> FALSE, rows |-> <<>>, mtime |-> 0, perm |-> TRUE]

RECURSIVE SeqsUpTo(_, _)
SeqsUpTo(S, n) ==
    IF n = 0 THEN {<<>>}
    ELSE LET shorter == SeqsUpTo(S, n - 1)
         IN shorter \cup {Append(s, x) : s \in {t \in shorter : Len(t) = n - 1}, x \in S}

Contents == SeqsUpTo(Vals \cup {Bad}, MaxRows)

\* stat().st_size: the header line and one line per data row
st_size(f) == Len(f.rows) + 1

\* ------------------------------------------------------------ state store
NoEntry == [tracked |-> FALSE, last_mtime |-> 0, last_size |-> 0,
            last_hash |-> <<>>, last_row |-> 0]

EmptyMap == [p \in Paths |-> NoEntry]

\* self.file_states = {}
EmptyStates == [shape |-> "dict", map |-> EmptyMap]

\* what csv_state.json holds: nothing, bytes that are no JSON, a JSON array,
\* or the JSON object save_state wrote
AbsentStore == [content |-> "absent", map |-> EmptyMap]

load_state(store) ==
    CASE store.content = "absent"  -> EmptyStates
      [] store.content = "garbage" -> EmptyStates
      [] store.content = "list"    -> [shape |-> "list", map |-> EmptyMap]
      [] OTHER                     -> [shape |-> "dict", map |-> store.map]

save_state(states) ==
    [content |-> states.shape, map |-> states.map]

\* "" when the file cannot be opened, else the digest of its bytes
get_file_hash(f) ==
    IF f.perm THEN <<"md5">> \o f.rows ELSE <<>>

\* mutant: the comparison always reports a change
file_modified_always(state, current_mtime, current_size, current_hash) ==
    TRUE

\* mutant: the content hash is not compared
file_modified_nohash(state, current_mtime, current_size, current_hash) ==
    \/ current_mtime # state.last_mtime
    \/ current_size # state.last_size

\* "if (current_mtime != ... or current_size != ... or current_hash != ...)"
file_modified(state, current_mtime, current_size, current_hash) ==
    \/ current_mtime # state.last_mtime
    \/ current_size # state.last_size
    \/ current_hash # state.last_hash

should_process_file(file_str, states, files) ==
    LET f == files[file_str]
        quiet == [need |-> FALSE, states |-> states, error |-> FALSE]
    IN  IF ~f.exists
        THEN [quiet EXCEPT !.error = TRUE]
        ELSE
        LET current_mtime == f.mtime
            current_size == st_size(f)
            current_hash == get_file_hash(f)
            state == states.map[file_str]
        IN  IF states.shape # "dict"
            THEN [quiet EXCEPT !.error = TRUE]
            ELSE IF ~state.tracked
            THEN [need |-> TRUE,
                  states |-> [states EXCEPT !.map[file_str] =
                                [tracked |-> TRUE, last_mtime |-> current_mtime,
                                 last_size |-> current_size, last_hash |-> current_hash,
                                 last_row |-> 0]],
                  error |-> FALSE]
            ELSE IF file_modified(state, current_mtime, current_size, current_hash)
            THEN [need |-> TRUE,
                  states |-> [states EXCEPT !.map[file_str].last_mtime = current_mtime,
                                            !.map[file_str].last_size = current_size,
                                            !.map[file_str].last_hash = current_hash],
                  error |-> FALSE]
            ELSE quiet

\* The event printed for data row number row of the file.  The row number is
\* not part of the printed JSON; it is kept to tell the rows of a file apart.
create_splunk_event(value, source_file, row) ==
    [source |-> source_file, row |-> row, event |-> value]

\* the for loop of process_csv_file
RECURSIVE read_rows(_, _, _, _, _)
read_rows(rows, last_row, current_row, events, source_file) ==
    IF current_row = Len(rows)
    THEN [current_row |-> current_row, events |-> events, error |-> FALSE]
    ELSE IF rows[current_row + 1] = Bad
    THEN [current_row |-> current_row, events |-> events, error |-> TRUE]
    ELSE IF current_row + 1 <= last_row
    THEN read_rows(rows, last_row, current_row + 1, events, source_file)
    ELSE read_rows(rows, last_row, current_row + 1,
                   Append(events,
                          create_splunk_event(rows[current_row + 1], source_file,
                                              current_row + 1)),
                   source_file)

\* process_csv_file once last_row is read from the state (line 136)
process_rows_from(file_str, states, files, last_row) ==
    LET f == files[file_str]
        loop == read_rows(f.rows, last_row, 0, <<>>, file_str)
    IN  IF states.shape # "dict" \/ ~f.exists \/ ~f.perm
        THEN [count |-> 0, events |-> <<>>, states |-> states,
              error |-> TRUE, raised |-> FALSE]
        ELSE IF loop.error
        THEN [count |-> Len(loop.events), events |-> loop.events, states |-> states,
              error |-> TRUE, raised |-> FALSE]
        ELSE [count |-> Len(loop.events), events |-> loop.events,
              states |-> IF states.map[file_str].tracked
                         THEN [states EXCEPT !.map[file_str].last_row = loop.current_row]
                         ELSE states,
              error |-> FALSE, raised |-> FALSE]

\* mutant: the stored row index is ignored
process_csv_file_restart(file_str, states, files) ==
    process_rows_from(file_str, states, files, 0)

\* mutant: an error while reading the file leaves process_csv_file as an exception
process_csv_file_uncaught(file_str, states, files) ==
    LET r == process_rows_from(file_str, states, files, states.map[file_str].last_row)
    IN  [r EXCEPT !.raised = r.error]

\* mutant: the stored row index is dropped when the file holds fewer rows
process_csv_file_reset_on_shrink(file_str, states, files) ==
    process_rows_from(file_str, states, files,
                      IF Len(files[file_str].rows) < states.map[file_str].last_row
                      THEN 0 ELSE states.map[file_str].last_row)

\* mutant: the rows printed before an error are committed to the row index
process_csv_file_commit_partial(file_str, states, files) ==
    LET r == process_rows_from(file_str, states, files, states.map[file_str].last_row)
    IN  IF r.error /\ r.count > 0
        THEN [r EXCEPT !.states.map[file_str].last_row =
                           states.map[file_str].last_row + r.count]
        ELSE r

process_csv_file(file_str, states, files) ==
    process_rows_from(file_str, states, files, states.map[file_str].last_row)

\* mutant: the state is saved after every pass
save_always(total) == TRUE

\* run_once: "if total_processed > 0"
\* mutant: the state is never saved
save_never(total) == FALSE

save_needed(total) == total > 0

\* ------------------------------------------------ the history of stdout
NoneEmitted == [p \in Paths |-> [i \in 1..MaxRows |-> 0]]

\* emitted once the events printed by a step are counted
emitted_after(em, events) ==
    [p \in Paths |->
        [i \in 1..MaxRows |->
            IF \E k \in 1..Len(events) : events[k].source = p /\ events[k].row = i
            THEN (IF em[p][i] < 2 THEN em[p][i] + 1 ELSE 2)
            ELSE em[p][i]]]

\* ------------------------------------------------------ extract_timestamp
timestamp_fields ==
    <<"timestamp", "time", "datetime", "date", "created_at", "updated_at">>

formats ==
    <<"%Y-%m-%d %H:%M:%S", "%Y-%m-%d %H:%M:%S.%f", "%Y-%m-%dT%H:%M:%S",
      "%Y-%m-%dT%H:%M:%S.%f", "%Y-%m-%dT%H:%M:%SZ", "%Y-%m-%d",
      "%m/%d/%Y %H:%M:%S", "%d/%m/%Y %H:%M:%S">>

\* The values a field of a row is drawn from: the key is not in the row, the
\* empty string, a date-time one pattern parses, one two patterns parse, a
\* number, and a text that is neither.
NoField == "<no such key>"
FieldValues ==
    {NoField, "", "2024-01-15 10:30:00", "01/02/2024 10:30:00", "1705314600", "n/a"}

Rows == [{timestamp_fields[i] : i \in 1..Len(timestamp_fields)} -> FieldValues]

\* datetime.strptime(timestamp_str, fmt) does not raise ValueError
strptime_ok(timestamp_str, fmt) ==
    \/ timestamp_str = "2024-01-15 10:30:00" /\ fmt = "%Y-%m-%d %H:%M:%S"
    \/ timestamp_str = "01/02/2024 10:30:00"
       /\ fmt \in {"%m/%d/%Y %H:%M:%S", "%d/%m/%Y %H:%M:%S"}

\* float(timestamp_str) does not raise ValueError
float_ok(timestamp_str) == timestamp_str = "1705314600"

\* The value returned, told by where it comes from: dt.timestamp() of a field
\* parsed with a pattern, float() of a field, or datetime.now().timestamp().
Unset == [how |-> "unset", field |-> "", format |-> ""]
Now == [how |-> "now", field |-> "", format |-> ""]

\* "for fmt in formats": the index of the first pattern that parses, 0 if none
RECURSIVE try_formats(_, _)
try_formats(timestamp_str, k) ==
    IF k > Len(formats) THEN 0
    ELSE IF strptime_ok(timestamp_str, formats[k]) THEN k
    ELSE try_formats(timestamp_str, k + 1)

\* mutant: a field that neither parses nor is a number ends the search
extract_timestamp_no_continue(row) ==
    LET present == {i \in 1..Len(timestamp_fields) :
                      row[timestamp_fields[i]] \notin {NoField, ""}}
    IN  IF present = {} THEN Now
        ELSE LET i == CHOOSE i \in present : \A j \in present : i <= j
                 field == timestamp_fields[i]
                 k == try_formats(row[field], 1)
             IN  IF k # 0
                 THEN [how |-> "strptime", field |-> field, format |-> formats[k]]
                 ELSE IF float_ok(row[field])
                 THEN [how |-> "float", field |-> field, format |-> ""]
                 ELSE Now

\* "for field in timestamp_fields", from the i-th field on
RECURSIVE scan_fields(_, _)
scan_fields(row, i) ==
    IF i > Len(timestamp_fields) THEN Now
    ELSE LET field == timestamp_fields[i]
         IN  IF row[field] = NoField \/ row[field] = ""
             THEN scan_fields(row, i + 1)
             ELSE LET timestamp_str == row[field]
                      k == try_formats(timestamp_str, 1)
                  IN  IF k # 0
                      THEN [how |-> "strptime", field |-> field, format |-> formats[k]]
                      ELSE IF float_ok(timestamp_str)
                      THEN [how |-> "float", field |-> field, format |-> ""]
                      ELSE scan_fields(row, i + 1)

extract_timestamp(row) == scan_fields(row, 1)

\* ------------------------------------------- delete_disabled_searches.py
Names == {"s1", "s2"}           \* saved-search names

username == "admin"             \* config['splunk']['username']

\* the namespaces (user, app) a saved search can live in: one the lookup finds
\* under the configured user, one under nobody, one only the wildcards reach
NoHome == <<"", "">>
Homes == {<<"admin", "search">>, <<"nobody", "system">>, <<"bob", "myapp">>}

\* the body of a saved search's GET response, told by its "disabled" key
Details == {"disabled\">1<", "disabled\">true<", "disabled\">0<"}

Servers == [Names -> [home : Homes \cup {NoHome}, details : Details, locked : BOOLEAN]]

NamesFiles == {[exists |-> FALSE, names |-> <<>>]}
              \cup {[exists |-> TRUE, names |-> n] : n \in SeqsUpTo(Names, MaxNames)}

\* servicesNS/{user}/{app}: "-" stands for any user, any app
ns_matches(user, app, home) ==
    /\ home # NoHome
    /\ user \in {"-", home[1]}
    /\ app \in {"-", home[2]}

\* the (app, user) pairs of get_saved_search's two loops, in order
lookup_order ==
    <<<<"admin", "search">>, <<"nobody", "search">>, <<"-", "search">>,
      <<"admin", "system">>, <<"nobody", "system">>, <<"-", "system">>,
      <<"admin", "-">>, <<"nobody", "-">>, <<"-", "-">>>>

GetRequest(search_name, ns) ==
    [method |-> "GET", user |-> ns[1], app |-> ns[2], name |-> search_name]

DeleteRequest(search_name, ns) ==
    [method |-> "DELETE", user |-> ns[1], app |-> ns[2], name |-> search_name]

\* get_saved_search from the i-th namespace on: the GETs sent, and the first
\* namespace answering 200 (found FALSE when none does)
RECURSIVE get_saved_search_from(_, _, _, _)
get_saved_search_from(search_name, server, i, sent) ==
    IF i > Len(lookup_order)
    THEN [found |-> FALSE, details |-> "", user |-> "", app |-> "", sent |-> sent]
    ELSE LET ns == lookup_order[i]
             now_sent == Append(sent, GetRequest(search_name, ns))
         IN  IF ns_matches(ns[1], ns[2], server[search_name].home)
             THEN [found |-> TRUE, details |-> server[search_name].details,
                   user |-> ns[1], app |-> ns[2], sent |-> now_sent]
             ELSE get_saved_search_from(search_name, server, i + 1, now_sent)

get_saved_search(search_name, server) ==
    get_saved_search_from(search_name, server, 1, <<>>)

\* mutant: every search that was found counts as disabled
is_search_disabled_any(search_details) ==
    search_details # ""

is_search_disabled(search_details) ==
    /\ search_details # ""
    /\ search_details \in {"disabled\">1<", "disabled\">true<"}

\* delete_saved_search's list of (user, app) to try
deletion_attempts(user, app) ==
    IF user = "-" \/ app = "-"
    THEN LET actual == IF app # "-" THEN app ELSE "search"
         IN  <<<<username, "search">>, <<"nobody", "search">>,
               <<username, "system">>, <<"nobody", "system">>,
               <<username, actual>>, <<"nobody", actual>>>>
    ELSE <<<<user, app>>>>

\* the DELETE answers 200 when the search lives in exactly that namespace and
\* the server lets this user delete it
delete_ok(search_name, ns, server) ==
    /\ server[search_name].home = ns
    /\ ~server[search_name].locked

\* delete_saved_search from the i-th attempt on
RECURSIVE delete_saved_search_from(_, _, _, _, _)
delete_saved_search_from(search_name, attempts, server, i, sent) ==
    IF i > Len(attempts)
    THEN [deleted |-> FALSE, sent |-> sent]
    ELSE LET now_sent == Append(sent, DeleteRequest(search_name, attempts[i]))
         IN  IF delete_ok(search_name, attempts[i], server)
             THEN [deleted |-> TRUE, sent |-> now_sent]
             ELSE delete_saved_search_from(search_name, attempts, server, i + 1, now_sent)

delete_saved_search(search_name, user, app, server) ==
    delete_saved_search_from(search_name, deletion_attempts(user, app), server, 1, <<>>)

NoCounts == [deleted |-> 0, skipped |-> 0, not_found |-> 0, error |-> 0]

\* the script is not run
DelIdle ==
    /\ searches = [n \in Names |-> [home |-> NoHome, details |-> "disabled\">0<",
                                    locked |-> FALSE]]
    /\ connection_ok = FALSE
    /\ dry_run = FALSE
    /\ names_file = [exists |-> FALSE, names |-> <<>>]
    /\ search_names = <<>>
    /\ requests = <<>>
    /\ counts = NoCounts
    /\ del_pc = "done"

\* ------------------------------------------------------ csv_to_splunk.py
\* what the event collector can answer to a POST: 200, another status, or
\* nothing (requests.post raises)
Answers == {"200", "503", "timeout"}

NoJson == [written |-> FALSE, events |-> <<>>]

\* read_csv_file: the rows, or the exception it logs and raises again
read_csv_file(f) ==
    IF f.exists /\ f.perm /\ \A i \in 1..Len(f.rows) : f.rows[i] # Bad
    THEN [raised |-> FALSE, data |-> f.rows]
    ELSE [raised |-> TRUE, data |-> <<>>]

\* csv_to_json: one event per row, in row order
csv_to_json(csv_data, source_file) ==
    [i \in 1..Len(csv_data) |->
        [source |-> source_file, row |-> i, event |-> csv_data[i]]]

\* mutant: the events are posted as soon as a host is configured
may_send_host_only(host, token) ==
    host # ""

\* "if self.splunk_host and self.splunk_token" / "all([host, token])"
may_send(host, token) ==
    host # "" /\ token # ""

\* the converter is not run
ConvIdle ==
    /\ data_path = [p \in Paths |-> NoFile]
    /\ output_ok = FALSE
    /\ splunk_host = ""
    /\ splunk_token = ""
    /\ csv_files = <<>>
    /\ sending = <<>>
    /\ json_output = [p \in Paths |-> NoJson]
    /\ posted = <<>>
    /\ conv_pc = "done"

\* ------------------------------------------------- passes over unchanged files
\* calm counts the passes run from start to end since the environment last
\* changed or a process last started from an invalid state store: 0 none (or
\* the running pass saw a change), 1 the first is running, 2 one has ended,
\* 3 another is running, 4 at least two have ended.
CalmAtStart(c, store) == IF store.content \in {"garbage", "list"} THEN 0 ELSE c
CalmAtScan(c) == IF c \in {0, 1} THEN 1 ELSE 3
CalmAtEnd(c) == IF c = 1 THEN 2 ELSE IF c = 3 THEN 4 ELSE c

\* ------------------------------------------------------------------- Init
Init ==
    /\ fs = [p \in Paths |-> NoFile]
    /\ state_file = AbsentStore
    /\ file_states = EmptyStates
    /\ pc = "down"
    /\ run_mode = "once"
    /\ todo = <<>>
    /\ total_processed = 0
    /\ out = <<>>
    /\ failed = FALSE
    /\ writes = 0
    /\ exit_how = "none"
    /\ calm = 0
    /\ edits = 0
    /\ emitted = NoneEmitted
    /\ csv_row = [f \in DOMAIN CHOOSE r \in Rows : TRUE |-> NoField]
    /\ event_time = Unset
    /\ DelIdle
    /\ ConvIdle

proc_vars == <<file_states, pc, run_mode, todo, total_processed, out, failed,
               writes, exit_how>>
ts_vars == <<csv_row, event_time>>
del_vars == <<searches, connection_ok, dry_run, names_file, search_names, requests,
              counts, del_pc>>
conv_vars == <<data_path, output_ok, splunk_host, splunk_token, csv_files, sending,
               json_output, posted, conv_pc>>
other_vars == <<ts_vars, del_vars, conv_vars, emitted>>

\* ------------------------------------------------------------ environment
EnvStep ==
    /\ edits < MaxEdits
    /\ edits' = edits + 1
    /\ calm' = 0
    /\ UNCHANGED proc_vars
    /\ UNCHANGED other_vars

\* A new file appears in the directory.  The program treats all paths alike,
\* so b.csv is only created beside a.csv.
CreateFile ==
    \E p \in Paths, rows \in Contents :
        /\ ~fs[p].exists
        /\ p = "a.csv" \/ fs["a.csv"].exists
        /\ fs' = [fs EXCEPT ![p] = [exists |-> TRUE, rows |-> rows, mtime |-> 0,
                                    perm |-> TRUE]]
        /\ UNCHANGED state_file
        /\ EnvStep

\* one row is appended to a file, within the granularity of its modification time
AppendRow ==
    \E p \in Paths, v \in Vals \cup {Bad} :
        /\ fs[p].exists
        /\ Len(fs[p].rows) < MaxRows
        /\ fs' = [fs EXCEPT ![p].rows = Append(@, v)]
        /\ UNCHANGED state_file
        /\ EnvStep

\* a file is truncated or rewritten in place, its modification time kept
RewriteFile ==
    \E p \in Paths, rows \in Contents :
        /\ fs[p].exists
        /\ rows # fs[p].rows
        /\ \A v \in Vals \cup {Bad} : rows # Append(fs[p].rows, v)
        /\ fs' = [fs EXCEPT ![p].rows = rows]
        /\ UNCHANGED state_file
        /\ EnvStep

\* the modification time of a file moves on (a write of the same bytes, or the
\* time stamp of one of the writes above)
TouchFile ==
    \E p \in Paths :
        /\ fs[p].exists
        /\ fs[p].mtime < MaxTime
        /\ fs' = [fs EXCEPT ![p].mtime = @ + 1]
        /\ UNCHANGED state_file
        /\ EnvStep

RemoveFile ==
    \E p \in Paths :
        /\ fs[p].exists
        /\ fs' = [fs EXCEPT ![p] = NoFile]
        /\ UNCHANGED state_file
        /\ EnvStep

\* the file becomes unreadable, or readable again
Chmod ==
    \E p \in Paths :
        /\ fs[p].exists
        /\ fs' = [fs EXCEPT ![p].perm = ~@]
        /\ UNCHANGED state_file
        /\ EnvStep

\* the state store is replaced with invalid content
CorruptStore ==
    \E c \in {"garbage", "list"} :
        /\ state_file.content # c
        /\ state_file' = [content |-> c, map |-> EmptyMap]
        /\ UNCHANGED fs
        /\ EnvStep

\* ---------------------------------------------------------------- process
env_vars == <<fs, edits>>

\* main(): __init__ with load_state
Start ==
    \E mode \in RunModes :
        /\ pc = "down"
        /\ pc' = "idle"
        /\ run_mode' = mode
        /\ file_states' = load_state(state_file)
        /\ exit_how' = "none"
        /\ total_processed' = 0
        /\ out' = <<>>
        /\ failed' = FALSE
        /\ writes' = 0
        /\ calm' = CalmAtStart(calm, state_file)
        /\ UNCHANGED <<state_file, todo>>
        /\ UNCHANGED env_vars
        /\ UNCHANGED other_vars

Orders(S) == {s \in SeqsUpTo(S, Cardinality(S)) :
                Len(s) = Cardinality(S) /\ {s[i] : i \in 1..Len(s)} = S}

\* run_once up to the for loop: scan_csv_files, in the order glob gives
Scan ==
    /\ pc = "idle"
    /\ pc' = "pass"
    /\ todo' \in Orders({p \in Paths : fs[p].exists})
    /\ total_processed' = 0
    /\ out' = <<>>
    /\ failed' = FALSE
    /\ writes' = 0
    /\ calm' = CalmAtScan(calm)
    /\ UNCHANGED <<state_file, file_states, run_mode, exit_how>>
    /\ UNCHANGED env_vars
    /\ UNCHANGED other_vars

\* the status the process ends with: sys.exit(1) of run_continuous's
\* "except Exception", 0 when main returns
exit_status(how) == IF how = "crashed" THEN 1 ELSE 0

\* the process is gone: its memory with it
Exit(how) ==
    /\ pc' = "down"
    /\ exit_how' = how
    /\ file_states' = EmptyStates
    /\ todo' = <<>>

\* one iteration of run_once's for loop
HandleFileStep ==
    /\ pc = "pass"
    /\ todo # <<>>
    /\ LET csv_file == Head(todo)
           chk == should_process_file(csv_file, file_states, fs)
           prc == process_csv_file(csv_file, chk.states, fs)
       IN  IF ~chk.need
           THEN /\ file_states' = chk.states
                /\ failed' = (failed \/ chk.error)
                /\ todo' = Tail(todo)
                /\ UNCHANGED <<pc, exit_how, total_processed, out>>
           ELSE IF prc.raised
           THEN /\ Exit("crashed")
                /\ out' = out \o prc.events
                /\ failed' = TRUE
                /\ UNCHANGED total_processed
           ELSE /\ file_states' = prc.states
                /\ out' = out \o prc.events
                /\ total_processed' = total_processed + prc.count
                /\ failed' = (failed \/ prc.error)
                /\ todo' = Tail(todo)
                /\ UNCHANGED <<pc, exit_how>>
    /\ UNCHANGED <<state_file, run_mode, writes, calm>>
    /\ UNCHANGED env_vars

HandleFile ==
    /\ HandleFileStep
    /\ UNCHANGED other_vars

\* the same iteration, the printed events counted in emitted
HandleFileCounted ==
    /\ HandleFileStep
    /\ emitted' = emitted_after(emitted, SubSeq(out', Len(out) + 1, Len(out')))
    /\ UNCHANGED <<ts_vars, del_vars, conv_vars>>

\* run_once after the for loop, and what follows it in main / run_continuous
EndPass ==
    /\ pc = "pass"
    /\ todo = <<>>
    /\ IF save_needed(total_processed)
       THEN state_file' = save_state(file_states) /\ writes' = writes + 1
       ELSE UNCHANGED <<state_file, writes>>
    /\ IF run_mode = "once"
       THEN Exit("returned")
       ELSE pc' = "idle" /\ UNCHANGED <<exit_how, file_states, todo>>
    /\ calm' = CalmAtEnd(calm)
    /\ UNCHANGED <<run_mode, total_processed, out, failed>>
    /\ UNCHANGED env_vars
    /\ UNCHANGED other_vars

\* KeyboardInterrupt during time.sleep (or before the first pass)
InterruptIdle ==
    /\ pc = "idle"
    /\ run_mode = "continuous"
    /\ Exit("interrupt_idle")
    /\ UNCHANGED <<state_file, run_mode, total_processed, out, failed, writes, calm>>
    /\ UNCHANGED env_vars
    /\ UNCHANGED other_vars

\* KeyboardInterrupt during run_once, between two candidates or after the last:
\* it is no Exception, so it unwinds to run_continuous's handler
InterruptPass ==
    /\ pc = "pass"
    /\ run_mode = "continuous"
    /\ Exit("interrupt_pass")
    /\ UNCHANGED <<state_file, run_mode, total_processed, out, failed, writes, calm>>
    /\ UNCHANGED env_vars
    /\ UNCHANGED other_vars

\* KeyboardInterrupt inside process_csv_file's for loop, after n events of the
\* file were printed and before line 158 stores the row index
InterruptFile ==
    /\ pc = "pass"
    /\ run_mode = "continuous"
    /\ todo # <<>>
    /\ LET csv_file == Head(todo)
           chk == should_process_file(csv_file, file_states, fs)
           prc == process_csv_file(csv_file, chk.states, fs)
       IN  /\ chk.need
           /\ \E n \in 1..Len(prc.events) :
                  /\ out' = out \o SubSeq(prc.events, 1, n)
                  /\ total_processed' = total_processed
    /\ Exit("interrupt_file")
    /\ UNCHANGED <<state_file, run_mode, failed, writes, calm>>
    /\ UNCHANGED env_vars
    /\ UNCHANGED other_vars

Next ==
    \/ CreateFile
    \/ AppendRow
    \/ RewriteFile
    \/ TouchFile
    \/ RemoveFile
    \/ Chmod
    \/ CorruptStore
    \/ Start
    \/ Scan
    \/ HandleFile
    \/ EndPass
    \/ InterruptIdle
    \/ InterruptPass
    \/ InterruptFile

Spec == Init /\ [][Next]_vars

\* ------------------------------------------------------ append-only files
\* The script over files that are readable and only grow by appended rows,
\* with an intact state store and processes that end between two passes
\* (returning in once mode, interrupted in their sleep in continuous mode).
AllReadable ==
    \A p \in Paths :
        fs[p].exists => (fs[p].perm /\ \A i \in 1..Len(fs[p].rows) : fs[p].rows[i] # Bad)

CreateReadableFile == CreateFile /\ AllReadable'

AppendReadableRow == AppendRow /\ AllReadable'

AppendNext ==
    \/ CreateReadableFile
    \/ AppendReadableRow
    \/ Start
    \/ Scan
    \/ HandleFileCounted
    \/ EndPass
    \/ InterruptIdle

AppendSpec == Init /\ [][AppendNext]_vars

\* ------------------------------------------------------- changing files
\* The script over files that are created, appended to, rewritten and
\* touched, rows the reader fails on included, every printed event counted.
RetryNext ==
    \/ CreateFile
    \/ AppendRow
    \/ RewriteFile
    \/ TouchFile
    \/ Start
    \/ Scan
    \/ HandleFileCounted
    \/ EndPass

RetrySpec == Init /\ [][RetryNext]_vars

\* ------------------------------------------------- extract_timestamp alone
\* The rows extract_timestamp can be given, and its call on each.
TsInit ==
    /\ fs = [p \in Paths |-> NoFile]
    /\ state_file = AbsentStore
    /\ file_states = EmptyStates
    /\ pc = "down"
    /\ run_mode = "once"
    /\ todo = <<>>
    /\ total_processed = 0
    /\ out = <<>>
    /\ failed = FALSE
    /\ writes = 0
    /\ exit_how = "none"
    /\ calm = 0
    /\ edits = 0
    /\ emitted = NoneEmitted
    /\ csv_row \in Rows
    /\ event_time = Unset
    /\ DelIdle
    /\ ConvIdle

ExtractTimestamp ==
    /\ event_time = Unset
    /\ event_time' = extract_timestamp(csv_row)
    /\ UNCHANGED <<csv_row, fs, state_file, edits, calm, emitted>>
    /\ UNCHANGED proc_vars
    /\ UNCHANGED del_vars
    /\ UNCHANGED conv_vars

TsNext == ExtractTimestamp

TsSpec == TsInit /\ [][TsNext]_vars

\* -------------------------------------- delete_disabled_searches.py alone
DelInit ==
    /\ fs = [p \in Paths |-> NoFile]
    /\ state_file = AbsentStore
    /\ file_states = EmptyStates
    /\ pc = "down"
    /\ run_mode = "once"
    /\ todo = <<>>
    /\ total_processed = 0
    /\ out = <<>>
    /\ failed = FALSE
    /\ writes = 0
    /\ exit_how = "none"
    /\ calm = 0
    /\ edits = 0
    /\ emitted = NoneEmitted
    /\ csv_row = [f \in DOMAIN CHOOSE r \in Rows : TRUE |-> NoField]
    /\ event_time = Unset
    /\ searches \in Servers
    /\ connection_ok \in BOOLEAN
    /\ dry_run \in BOOLEAN
    /\ names_file \in NamesFiles
    /\ search_names = <<>>
    /\ requests = <<>>
    /\ counts = NoCounts
    /\ del_pc = "start"
    /\ ConvIdle

tracker_vars == <<fs, state_file, edits, calm, proc_vars, emitted>>

\* process_searches_from_file up to its for loop: test_connection, then the
\* names read from the file
BeginDelete ==
    /\ del_pc = "start"
    /\ requests' = <<[method |-> "GET", user |-> "-", app |-> "-", name |-> "apps/local"]>>
    /\ IF connection_ok /\ names_file.exists /\ names_file.names # <<>>
       THEN del_pc' = "loop" /\ search_names' = names_file.names
       ELSE del_pc' = "done" /\ UNCHANGED search_names
    /\ UNCHANGED <<searches, connection_ok, dry_run, names_file, counts>>
    /\ UNCHANGED tracker_vars
    /\ UNCHANGED ts_vars
    /\ UNCHANGED conv_vars

\* one iteration of process_searches_from_file's for loop
ProcessSearch ==
    /\ del_pc = "loop"
    /\ search_names # <<>>
    /\ LET search_name == Head(search_names)
           got == get_saved_search(search_name, searches)
           del == delete_saved_search(search_name, got.user, got.app, searches)
       IN  IF ~got.found
           THEN /\ requests' = requests \o got.sent
                /\ counts' = [counts EXCEPT !.not_found = @ + 1]
                /\ UNCHANGED searches
           ELSE IF ~is_search_disabled(got.details)
           THEN /\ requests' = requests \o got.sent
                /\ counts' = [counts EXCEPT !.skipped = @ + 1]
                /\ UNCHANGED searches
           ELSE IF dry_run
           THEN /\ requests' = requests \o got.sent
                /\ counts' = [counts EXCEPT !.deleted = @ + 1]
                /\ UNCHANGED searches
           ELSE /\ requests' = requests \o got.sent \o del.sent
                /\ IF del.deleted
                   THEN /\ counts' = [counts EXCEPT !.deleted = @ + 1]
                        /\ searches' = [searches EXCEPT ![search_name].home = NoHome]
                   ELSE /\ counts' = [counts EXCEPT !.error = @ + 1]
                        /\ UNCHANGED searches
    /\ search_names' = Tail(search_names)
    /\ UNCHANGED <<connection_ok, dry_run, names_file, del_pc>>
    /\ UNCHANGED tracker_vars
    /\ UNCHANGED ts_vars
    /\ UNCHANGED conv_vars

\* the summary line after the loop
Summary ==
    /\ del_pc = "loop"
    /\ search_names = <<>>
    /\ del_pc' = "done"
    /\ UNCHANGED <<searches, connection_ok, dry_run, names_file, search_names,
                   requests, counts>>
    /\ UNCHANGED tracker_vars
    /\ UNCHANGED ts_vars
    /\ UNCHANGED conv_vars

DelNext ==
    \/ BeginDelete
    \/ ProcessSearch
    \/ Summary

DelSpec == DelInit /\ [][DelNext]_vars

\* ------------------------------------------------- csv_to_splunk.py alone
ConvInit ==
    /\ fs = [p \in Paths |-> NoFile]
    /\ state_file = AbsentStore
    /\ file_states = EmptyStates
    /\ pc = "down"
    /\ run_mode = "once"
    /\ todo = <<>>
    /\ total_processed = 0
    /\ out = <<>>
    /\ failed = FALSE
    /\ writes = 0
    /\ exit_how = "none"
    /\ calm = 0
    /\ edits = 0
    /\ emitted = NoneEmitted
    /\ csv_row = [f \in DOMAIN CHOOSE r \in Rows : TRUE |-> NoField]
    /\ event_time = Unset
    /\ DelIdle
    /\ data_path \in [Paths -> {NoFile} \cup
                        {[exists |-> TRUE, rows |-> r, mtime |-> 0, perm |-> m] :
                            r \in Contents, m \in BOOLEAN}]
    /\ output_ok \in BOOLEAN
    /\ splunk_host \in {"", "localhost"}
    /\ splunk_token \in {"", "token"}
    /\ csv_files = <<>>
    /\ sending = <<>>
    /\ json_output = [p \in Paths |-> NoJson]
    /\ posted = <<>>
    /\ conv_pc = "start"

conv_inputs == <<data_path, output_ok, splunk_host, splunk_token>>

\* process_csv_directory up to its for loop
ListCsvFiles ==
    /\ conv_pc = "start"
    /\ \E files \in Orders({p \in Paths : data_path[p].exists}) :
           /\ csv_files' = files
           /\ conv_pc' = IF files = <<>> THEN "done" ELSE "loop"
    /\ UNCHANGED <<sending, json_output, posted>>
    /\ UNCHANGED conv_inputs
    /\ UNCHANGED tracker_vars
    /\ UNCHANGED ts_vars
    /\ UNCHANGED del_vars

\* the for loop's body up to send_to_splunk's first POST: read, convert, save
ConvertFile ==
    /\ conv_pc = "loop"
    /\ csv_files # <<>>
    /\ sending = <<>>
    /\ LET csv_file == Head(csv_files)
           csv_data == read_csv_file(data_path[csv_file])
           json_data == csv_to_json(csv_data.data, csv_file)
       IN  IF csv_data.raised \/ ~output_ok
           THEN /\ csv_files' = Tail(csv_files)
                /\ UNCHANGED <<json_output, sending>>
           ELSE /\ json_output' = [json_output EXCEPT ![csv_file] =
                                     [written |-> TRUE, events |-> json_data]]
                /\ IF may_send(splunk_host, splunk_token) /\ json_data # <<>>
                   THEN sending' = json_data /\ UNCHANGED csv_files
                   ELSE csv_files' = Tail(csv_files) /\ UNCHANGED sending
    /\ UNCHANGED <<posted, conv_pc>>
    /\ UNCHANGED conv_inputs
    /\ UNCHANGED tracker_vars
    /\ UNCHANGED ts_vars
    /\ UNCHANGED del_vars

\* one iteration of send_to_splunk's for loop; after the last one the for loop
\* of process_csv_directory goes on
PostEvent ==
    /\ conv_pc = "loop"
    /\ sending # <<>>
    /\ \E answer \in Answers :
           posted' = Append(posted, [event |-> Head(sending), answer |-> answer])
    /\ sending' = Tail(sending)
    /\ csv_files' = IF Tail(sending) = <<>> THEN Tail(csv_files) ELSE csv_files
    /\ UNCHANGED <<json_output, conv_pc>>
    /\ UNCHANGED conv_inputs
    /\ UNCHANGED tracker_vars
    /\ UNCHANGED ts_vars
    /\ UNCHANGED del_vars

\* the for loop ends
ConvDone ==
    /\ conv_pc = "loop"
    /\ csv_files = <<>>
    /\ conv_pc' = "done"
    /\ UNCHANGED <<csv_files, sending, json_output, posted>>
    /\ UNCHANGED conv_inputs
    /\ UNCHANGED tracker_vars
    /\ UNCHANGED ts_vars
    /\ UNCHANGED del_vars

ConvNext ==
    \/ ListCsvFiles
    \/ ConvertFile
    \/ PostEvent
    \/ ConvDone

ConvSpec == ConvInit /\ [][ConvNext]_vars

\* ======================================================================
\* What the claims are stated with
\* ======================================================================

\* a step of the for loop of run_once that ran to its end
HandleStep ==
    /\ pc = "pass"
    /\ todo # <<>>
    /\ pc' = "pass"
    /\ todo' = Tail(todo)

Entry(p) == file_states.map[p]

Tracked(p) == file_states.shape = "dict" /\ Entry(p).tracked

\* the data rows the reader yields before it raises
GoodRows(f) ==
    LET bad == {i \in 1..Len(f.rows) : f.rows[i] = Bad}
    IN  IF bad = {} THEN Len(f.rows)
        ELSE (CHOOSE i \in bad : \A j \in bad : i <= j) - 1

Readable(f) == f.exists /\ f.perm /\ GoodRows(f) = Len(f.rows)

\* the events of data rows lo+1..hi of file p, in row order
RowEvents(p, lo, hi) ==
    IF hi <= lo THEN <<>>
    ELSE [j \in 1..(hi - lo) |->
            [source |-> p, row |-> lo + j, event |-> fs[p].rows[lo + j]]]

\* ---------------------------------------------------------------- C1
\* C1: a pass that started after an earlier pass had run from start to end,
\* in the same process or in another one that loaded the state store, with no
\* change to the files and no loss of the state store since that earlier pass
\* started, prints no event.
Idempotence ==
    calm = 4 => out = <<>>

\* two passes ran over a file whose rows the first of them printed and stored
IdempotenceWitness ==
    /\ calm = 4
    /\ \E p \in Paths :
           /\ fs[p].exists
           /\ Len(fs[p].rows) > 0
           /\ state_file.content = "dict"
           /\ state_file.map[p].last_row = Len(fs[p].rows)

\* ---------------------------------------------------------------- C2
\* C2: when the stored snapshot of a tracked file is that of its first k rows,
\* k its stored row index, and the file now holds these rows and N >= 1
\* appended readable rows, handling the file prints exactly the events of rows
\* k+1..k+N, in order, and raises the stored row index by N.
AppendedTo(p, k) ==
    /\ Tracked(p)
    /\ Readable(fs[p])
    /\ Entry(p).last_row = k
    /\ Len(fs[p].rows) > k
    /\ Entry(p).last_size = k + 1
    /\ Entry(p).last_hash = <<"md5">> \o SubSeq(fs[p].rows, 1, k)

IncrementalCorrectness ==
    [][\A p \in Paths, k \in 0..MaxRows :
          (HandleStep /\ Head(todo) = p /\ AppendedTo(p, k))
          => /\ out' = out \o RowEvents(p, k, Len(fs[p].rows))
             /\ Len(out') = Len(out) + (Len(fs[p].rows) - k)
             /\ file_states'.map[p].last_row = k + (Len(fs[p].rows) - k)]_vars

\* a pass printed the one row appended to a file of one processed row
IncrementalWitness ==
    \E p \in Paths :
        /\ pc = "idle"
        /\ out = <<[source |-> p, row |-> 2, event |-> "u"]>>
        /\ Tracked(p)
        /\ Entry(p).last_row = 2
        /\ state_file.map[p].last_row = 2

\* ---------------------------------------------------------------- C3
\* C3: the stored row index of a path never becomes smaller, in the memory of
\* the process and in the state store.
RowIndexMonotone ==
    [][\A p \in Paths :
          /\ (Tracked(p) /\ file_states'.shape = "dict" /\ file_states'.map[p].tracked)
             => file_states'.map[p].last_row >= Entry(p).last_row
          /\ (state_file.content = "dict" /\ state_file'.content = "dict"
              /\ state_file.map[p].tracked /\ state_file'.map[p].tracked)
             => state_file'.map[p].last_row >= state_file.map[p].last_row]_vars

\* ---------------------------------------------------------------- C4
\* C4: an interrupt never stops the process in the middle of a file, with
\* events of the file printed and neither the row index nor the state store
\* updated.
NoMidFileStop ==
    exit_how # "interrupt_file"

\* ---------------------------------------------------------------- C5
\* C5: handling a file that cannot be hashed or read leaves the stored snapshot
\* (tracked, mtime, size, hash) of the file as it was.
Snapshot(e) == <<e.tracked, e.last_mtime, e.last_size, e.last_hash>>

FailureKeepsSnapshot ==
    [][\A p \in Paths :
          (HandleStep /\ Head(todo) = p /\ file_states.shape = "dict"
           /\ fs[p].exists /\ ~Readable(fs[p]))
          => Snapshot(file_states'.map[p]) = Snapshot(Entry(p))]_vars

\* ---------------------------------------------------------------- C6
\* C6: a candidate the loaded state holds no entry for, also after the state
\* store was replaced with invalid content, is treated as unseen: handling it
\* prints the events of all its rows.
UnseenFileFullyEmitted ==
    [][\A p \in Paths :
          (HandleStep /\ Head(todo) = p /\ ~Entry(p).tracked /\ Readable(fs[p]))
          => out' = out \o RowEvents(p, 0, Len(fs[p].rows))]_vars

\* ---------------------------------------------------------------- C7
\* C7: when a tracked file has the stored modification time and size and its
\* bytes differ from the hashed ones, handling it stores the new hash and
\* prints the events of the rows after the stored row index that the reader
\* yields, and of no row at or before that index.
HashOnlyChange(p) ==
    /\ Tracked(p)
    /\ fs[p].exists
    /\ fs[p].perm
    /\ Entry(p).last_mtime = fs[p].mtime
    /\ Entry(p).last_size = st_size(fs[p])
    /\ Entry(p).last_hash # <<>>
    /\ Entry(p).last_hash # <<"md5">> \o fs[p].rows

ChangeDetection ==
    [][\A p \in Paths :
          (HandleStep /\ Head(todo) = p /\ HashOnlyChange(p))
          => /\ out' = out \o RowEvents(p, Entry(p).last_row, GoodRows(fs[p]))
             /\ \A i \in (Len(out) + 1)..Len(out') : out'[i].row > Entry(p).last_row
             /\ file_states'.map[p].last_hash = <<"md5">> \o fs[p].rows]_vars

\* the loop is about to handle a file changed in its bytes alone, with rows
\* after the stored row index
ChangeDetectionWitness ==
    \E p \in Paths :
        /\ pc = "pass"
        /\ todo # <<>>
        /\ Head(todo) = p
        /\ HashOnlyChange(p)
        /\ Entry(p).last_row < GoodRows(fs[p])

\* ---------------------------------------------------------------- C8
\* C8 as claimed: the result comes from the first present, non-empty candidate
\* field alone: its first matching pattern, else its number, else the current
\* time, whatever the later fields hold.
Present(row, i) == row[timestamp_fields[i]] \notin {NoField, ""}

Parses(v) == {k \in 1..Len(formats) : strptime_ok(v, formats[k])}

Least(S) == CHOOSE i \in S : \A j \in S : i <= j

\* what field number i gives when it is the one the result comes from
FromField(row, i) ==
    LET v == row[timestamp_fields[i]]
    IN  IF Parses(v) # {}
        THEN [how |-> "strptime", field |-> timestamp_fields[i],
              format |-> formats[Least(Parses(v))]]
        ELSE IF float_ok(v)
        THEN [how |-> "float", field |-> timestamp_fields[i], format |-> ""]
        ELSE Now

TimestampFirstFieldOnly ==
    event_time # Unset
    => LET present == {i \in 1..Len(timestamp_fields) : Present(csv_row, i)}
       IN  event_time = IF present = {} THEN Now
                        ELSE FromField(csv_row, Least(present))

\* C8 as amended: the result comes from the first candidate field, in priority
\* order, that is present, non-empty and either matches a pattern or is a
\* number (fields that are neither are passed over); it is the current time
\* only when there is no such field.
TimestampFirstUsableField ==
    event_time # Unset
    => LET usable == {i \in 1..Len(timestamp_fields) :
                        /\ Present(csv_row, i)
                        /\ \/ Parses(csv_row[timestamp_fields[i]]) # {}
                           \/ float_ok(csv_row[timestamp_fields[i]])}
       IN  event_time = IF usable = {} THEN Now
                        ELSE FromField(csv_row, Least(usable))

\* the result came from a lower-priority field, the first present one holding
\* neither a date-time nor a number
TimestampWitness ==
    /\ csv_row["timestamp"] = "n/a"
    /\ csv_row["time"] = "01/02/2024 10:30:00"
    /\ event_time = [how |-> "strptime", field |-> "time",
                     format |-> "%m/%d/%Y %H:%M:%S"]

\* ---------------------------------------------------------------- C9
\* C9: every run of the loop body, whatever failed in it or before it in the
\* pass, leaves the pass running with the remaining candidates; a candidate
\* handled after a failure is evaluated and, when it needs processing, its
\* rows are printed.
LoopStep ==
    /\ pc = "pass"
    /\ todo # <<>>
    /\ todo' # todo
    /\ exit_how' \notin {"interrupt_pass", "interrupt_file"}

NeedsProcessing(p) ==
    /\ fs[p].exists
    /\ file_states.shape = "dict"
    /\ \/ ~Entry(p).tracked
       \/ Entry(p).last_mtime # fs[p].mtime
       \/ Entry(p).last_size # st_size(fs[p])
       \/ Entry(p).last_hash # get_file_hash(fs[p])

Expected(p) ==
    IF NeedsProcessing(p) /\ fs[p].perm
    THEN RowEvents(p, Entry(p).last_row, GoodRows(fs[p]))
    ELSE <<>>

PassSurvivesFailure ==
    [][LoopStep
       => /\ pc' = "pass"
          /\ todo' = Tail(todo)
          /\ failed => out' = out \o Expected(Head(todo))]_vars

\* after a failure in the pass, the next candidate has rows to print
PassSurvivesWitness ==
    /\ pc = "pass"
    /\ failed
    /\ todo # <<>>
    /\ Expected(Head(todo)) # <<>>

\* --------------------------------------------------------------- C10
\* C10: no save_state call is made while candidates are being handled; a pass
\* that ran to its end made one call if it printed an event and none if it
\* printed no event.
SaveOncePerPass ==
    /\ writes <= 1
    /\ pc = "pass" => writes = 0
    /\ (pc # "pass" /\ exit_how \in {"none", "returned"})
       => writes = (IF total_processed > 0 THEN 1 ELSE 0)
    /\ (pc # "pass" /\ exit_how \in {"none", "returned"})
       => total_processed = Len(out)

\* a pass ended without an event and without a save, the snapshot refreshed in
\* memory differing from the stored one
SaveOncePerPassWitness ==
    \E p \in Paths :
        /\ pc = "idle"
        /\ calm \in {2, 4}
        /\ total_processed = 0
        /\ writes = 0
        /\ Tracked(p)
        /\ state_file.content = "dict"
        /\ state_file.map[p].tracked
        /\ Entry(p).last_mtime # state_file.map[p].last_mtime

\* --------------------------------------------------------------- C11
\* C11: when the hash of an existing candidate cannot be computed,
\* should_process_file answers that the file is not to be processed and the
\* entry of the file in the state is left as it was (nothing is recorded).
HashFailureNotProcessable ==
    [][\A p \in Paths :
          (HandleStep /\ Head(todo) = p /\ file_states.shape = "dict"
           /\ fs[p].exists /\ get_file_hash(fs[p]) = <<>>)
          => /\ ~should_process_file(p, file_states, fs).need
             /\ file_states'.map[p] = Entry(p)]_vars

\* --------------------------------------------------------------- C12
\* C12: a process in once mode ends only by returning at the end of its one
\* pass; a process in continuous mode goes back to sleep after every pass and
\* ends only on an interrupt, with status 0; no process ends with another
\* status, whatever failed in the pass.
Interrupts == {"interrupt_idle", "interrupt_pass", "interrupt_file"}

NewRequests == {requests'[i] : i \in (Len(requests) + 1)..Len(requests')}

DeleteOnlyFoundDisabled ==
    [][\A r \in NewRequests :
          /\ r.method = "DELETE"
             => /\ search_names # <<>>
                /\ r.name = Head(search_names)
                /\ searches[r.name].home # NoHome
                /\ searches[r.name].details \in {"disabled\">1<", "disabled\">true<"}
                /\ ~dry_run
          /\ r.name \in Names => connection_ok]_vars

\* a disabled search was deleted and an enabled one was skipped
DeleteWitness ==
    /\ del_pc = "done"
    /\ counts.deleted = 1
    /\ counts.skipped = 1
    /\ ~dry_run
    /\ \E i \in 1..Len(requests) : requests[i].method = "DELETE"

\* --------------------------------------------------------------- C14
\* C14: processing a file prints, in row order, the events of exactly the data
\* rows after the stored row index that the reader yields, and of no row at or
\* before that index; when the reader yields every row, the stored row index
\* becomes the number of data rows of the file.
RowEmission ==
    [][\A p \in Paths :
          (HandleStep /\ Head(todo) = p /\ NeedsProcessing(p) /\ fs[p].perm)
          => /\ out' = out \o RowEvents(p, Entry(p).last_row, GoodRows(fs[p]))
             /\ \A i, j \in (Len(out) + 1)..Len(out') :
                    i < j => out'[i].row < out'[j].row
             /\ Readable(fs[p])
                => file_states'.map[p].last_row = Len(fs[p].rows)]_vars

\* the first pass in once mode over a fresh file of two data rows printed two
\* events of that file and stored row index 2
RowEmissionWitness ==
    \E p \in Paths :
        /\ pc = "down"
        /\ exit_how = "returned"
        /\ Len(out) = 2
        /\ out[1] = [source |-> p, row |-> 1, event |-> "u"]
        /\ out[2] = [source |-> p, row |-> 2, event |-> "u"]
        /\ state_file.content = "dict"
        /\ state_file.map[p].last_row = 2

\* --------------------------------------------------------------- C15
\* C15: for an existing candidate, should_process_file answers true exactly
\* when the path is not in the state or its modification time, size or hash
\* differs from the stored one; when it answers false for a tracked path the
\* state is left as it was.
Unseen(p) == file_states.shape # "dict" \/ ~Entry(p).tracked

Differs(p) ==
    /\ ~Unseen(p)
    /\ \/ Entry(p).last_mtime # fs[p].mtime
       \/ Entry(p).last_size # st_size(fs[p])
       \/ Entry(p).last_hash # get_file_hash(fs[p])

NeedsProcessingExact ==
    \A p \in Paths :
        (pc = "pass" /\ todo # <<>> /\ Head(todo) = p /\ fs[p].exists)
        => LET r == should_process_file(p, file_states, fs)
           IN  /\ r.need = (Unseen(p) \/ Differs(p))
               /\ ~r.need => r.states = file_states

\* --------------------------------------------------------------- C16
\* C16: when a tracked file with stored row index k was rewritten with r <= k
\* readable data rows, handling it refreshes the stored modification time,
\* size and hash, prints no event, and sets the stored row index to r.
RewrittenShorter(p) ==
    /\ Tracked(p)
    /\ NeedsProcessing(p)
    /\ Readable(fs[p])
    /\ Len(fs[p].rows) <= Entry(p).last_row

IndexNotReset ==
    [][\A p \in Paths :
          (HandleStep /\ Head(todo) = p /\ RewrittenShorter(p))
          => /\ out' = out
             /\ file_states'.map[p].last_row = Len(fs[p].rows)
             /\ file_states'.map[p].last_mtime = fs[p].mtime
             /\ file_states'.map[p].last_size = st_size(fs[p])
             /\ file_states'.map[p].last_hash = get_file_hash(fs[p])]_vars

\* the loop is about to handle a file of one row whose stored row index is 2
IndexNotResetWitness ==
    \E p \in Paths :
        /\ pc = "pass"
        /\ todo # <<>>
        /\ Head(todo) = p
        /\ RewrittenShorter(p)
        /\ Entry(p).last_row = 2
        /\ Len(fs[p].rows) = 1

\* --------------------------------------------------------------- C17
\* C17: an event is posted only when host and token are configured and the
\* JSON file of its CSV file is already written with the events of that file,
\* and the posting, whatever its answer, leaves the JSON files as they are;
\* whatever failed before, the loop goes on with the remaining CSV files, and
\* a readable CSV file gets its JSON file when the output can be written.
IsPosting == posted' # posted

ConverterOrder ==
    [][/\ IsPosting
          => /\ Len(posted') = Len(posted) + 1
             /\ LET e == posted'[Len(posted')].event
                IN  /\ json_output[e.source].written
                    /\ json_output[e.source].events =
                           csv_to_json(data_path[e.source].rows, e.source)
                    /\ e = json_output[e.source].events[e.row]
             /\ splunk_host # ""
             /\ splunk_token # ""
             /\ json_output' = json_output
       /\ (conv_pc = "loop" /\ csv_files # <<>>)
          => /\ conv_pc' = "loop"
             /\ csv_files' \in {csv_files, Tail(csv_files)}
       /\ (conv_pc = "loop" /\ csv_files # <<>> /\ sending = <<>> /\ output_ok
           /\ ~read_csv_file(data_path[Head(csv_files)]).raised)
          => json_output'[Head(csv_files)] =
                 [written |-> TRUE,
                  events |-> csv_to_json(data_path[Head(csv_files)].rows,
                                         Head(csv_files))]]_vars

\* after a CSV file that could not be read, the JSON file of the next one is
\* written and a POST of one of its events was answered with an error
ConverterWitness ==
    \E p, q \in Paths :
        /\ p # q
        /\ data_path[p].exists
        /\ ~json_output[p].written
        /\ csv_files = <<q>>
        /\ json_output[q].written
        /\ posted # <<>>
        /\ posted[Len(posted)].event.source = q
        /\ posted[Len(posted)].answer # "200"

\* --------------------------------------------------------------- C18
\* C18: over append-only readable files, with the state store intact and
\* processes ending only between passes, no event is ever printed twice, and
\* once a file was handled in a pass every row it held then has been printed.
ExactlyOnce ==
    [][/\ \A p \in Paths : \A i \in 1..MaxRows : emitted'[p][i] <= 1
       /\ HandleStep
          => \A i \in 1..Len(fs[Head(todo)].rows) : emitted'[Head(todo)][i] = 1]_vars

\* a process in once mode printed the second row of a file, appended after an
\* earlier pass had printed the first; each of the two was printed once
ExactlyOnceWitness ==
    \E p \in Paths :
        /\ Len(fs[p].rows) = 2
        /\ emitted[p][1] = 1
        /\ emitted[p][2] = 1
        /\ pc = "down"
        /\ exit_how = "returned"
        /\ out = <<[source |-> p, row |-> 2, event |-> "u"]>>
        /\ state_file.content = "dict"
        /\ state_file.map[p].last_row = 2

\* --------------------------------------------------------------- C19
\* C19: when the reader fails on a row of a file after rows beyond the stored
\* row index were printed, the stored row index stays, the snapshot is the
\* refreshed one, the printed events stay on the output and are counted in
\* total_processed; the pass then saves this state; and a pass that
\* processes a file prints the rows after the stored row index, printed
\* before or not.
PartialFailure(p) ==
    /\ NeedsProcessing(p)
    /\ fs[p].perm
    /\ GoodRows(fs[p]) < Len(fs[p].rows)
    /\ GoodRows(fs[p]) > Entry(p).last_row

OnceMore(n) == IF n < 2 THEN n + 1 ELSE 2

PartialFailureReemits ==
    [][/\ \A p \in Paths :
            (HandleStep /\ Head(todo) = p /\ PartialFailure(p))
            => /\ file_states'.map[p].last_row = Entry(p).last_row
               /\ file_states'.map[p].tracked
               /\ file_states'.map[p].last_mtime = fs[p].mtime
               /\ file_states'.map[p].last_size = st_size(fs[p])
               /\ file_states'.map[p].last_hash = get_file_hash(fs[p])
               /\ out' = out \o RowEvents(p, Entry(p).last_row, GoodRows(fs[p]))
               /\ total_processed' =
                      total_processed + (GoodRows(fs[p]) - Entry(p).last_row)
       /\ (pc = "pass" /\ todo = <<>> /\ pc' # "pass" /\ total_processed > 0)
          => state_file' = save_state(file_states)
       /\ \A p \in Paths :
            (HandleStep /\ Head(todo) = p /\ NeedsProcessing(p) /\ fs[p].perm)
            => \A i \in (Entry(p).last_row + 1)..GoodRows(fs[p]) :
                   emitted'[p][i] = OnceMore(emitted[p][i])]_vars

\* the row before the failing one was printed by two passes, the saved row
\* index still 0
PartialFailureWitness ==
    \E p \in Paths :
        /\ fs[p].rows = <<"u", Bad>>
        /\ emitted[p][1] = 2
        /\ state_file.content = "dict"
        /\ state_file.map[p].tracked
        /\ state_file.map[p].last_row = 0

TypeOK ==
    /\ pc \in {"down", "idle", "pass"}
    /\ edits \in 0..MaxEdits
    /\ calm \in 0..4
    /\ writes \in 0..1

====
